---- MODULE Spec2Model ----
(***************************************************************************)
(* Document indexing engine of Servibot: the upload status store           *)
(* (UPLOAD_STATUS, guarded by UPLOAD_STATUS_LOCK), the ingestion pipeline  *)
(* index_file, the background threads started by upload and manual         *)
(* reindex, the retry worker and the delete handler.                       *)
(*                                                                         *)
(* Threads are interleaved at the granularity of the statements that touch *)
(* shared state.  A "with UPLOAD_STATUS_LOCK" block that writes status and *)
(* message is two steps with the lock held in between, because the retry   *)
(* worker reads the record dictionaries without the lock.  The HTTP        *)
(* handlers are coroutines without a suspension point after the body has   *)
(* been read, so the event loop runs one of them at a time (variable req). *)
(***************************************************************************)
EXTENDS Integers, Sequences, FiniteSets, TLC

\* ---------------------------------------------------------------- bounds
FileIds == {"a.txt", "b.txt"}
Names == {"a.txt"}
MaxThreads == 3
MaxUploads == 2
MaxDeletes == 1
MaxReindex == 1
MaxAttempts == 4
MaxConcurrentReindex == 2
MaxRestarts == 1
MaxText == 6
MaxChunkSize == 4
MinChunkSmall == 2
MaxIter == 8
DocTotal == 2500
ParaStep == 100
MaxParaSteps == 23
MaxSentences == 3
MaxCallers == 2
MaxTopK == 3
MaxHits == 2
MaxIndexCalls == 2
MaxClients == 3
MaxResets == 1

\* ------------------------------------------------------ program constants
INDEX_RETRY_MAX == 3

permanent_errors ==
    {"file is empty", "no text could be extracted", "password-protected",
     "unsupported format", "file not found"}

\* ------------------------------------------------------------- messages
MsgUploaded    == "File uploaded, pending indexing"
MsgIndexing    == "Indexing in progress"
MsgManual      == "Manual reindexing started"
MsgRetrying    == "Retrying... (attempt n)"
MsgIndexed     == "Indexed n chunks"
MsgNotFound    == "File not found: path"
MsgEmpty       == "File is empty (0 bytes)"
MsgNoText      == "No text could be extracted from file. It may be empty, password-protected, or in an unsupported format."
MsgEmbedding   == "Embedding failed: e"
MsgStorage     == "Database storage failed: e"
MsgCritical    == "Critical error: KeyError"
MsgRetryExc    == "Retry exception: KeyError"
MsgKeyError    == "KeyError"
MsgMissing     == ""

\* The permanent-error substrings that occur in the lower-cased message.
LowerSubstrings(msg) ==
    CASE msg = MsgNotFound -> {"file not found"}
      [] msg = MsgEmpty    -> {"file is empty"}
      [] msg = MsgNoText   -> {"no text could be extracted", "password-protected",
                               "unsupported format"}
      [] OTHER             -> {}

is_permanent(msg) == \E perm \in permanent_errors : perm \in LowerSubstrings(msg)

\* ---------------------------------------------------------------- state
VARIABLES
    files,          \* upload directory: file id -> "absent" | "empty" | "notext" | "text"
    UPLOAD_STATUS,  \* file id -> status record (status "absent": no key)
    order,          \* keys of UPLOAD_STATUS in insertion order
    lock,           \* holder of UPLOAD_STATUS_LOCK: "free", "worker" or Holder(thread)
    chroma,         \* file ids that have index entries in the collection
    req,            \* the request the event loop is handling
    thr,            \* background threads started by upload_file and reindex_file
    w,              \* the retry worker thread
    gone,           \* file id -> delete_file returned success and no upload since
    nUploads, nDeletes, nReindex,
    disk,           \* the status file: UPLOAD_STATUS and its key order at the last
                    \* save; torn: the file was opened for writing and not completed
    dups,           \* file ids that have two index entries under one entry id
    auto,           \* the process: restarts so far and the startup auto-index thread
    ck,             \* a run of ChunkingStrategy.chunk_by_characters
    pg,             \* a run of ChunkingStrategy.chunk on a document of paragraphs
    qs,             \* a call of the query engine (query.py, embeddings.py)
    cl,             \* chroma_client: the module global _client and its callers
    ix              \* a call of ingest.index_file, stage by stage

vars == <<files, UPLOAD_STATUS, order, lock, chroma, req, thr, w, gone,
          nUploads, nDeletes, nReindex, disk, dups, auto, ck, pg, qs, cl, ix>>

\* What the request handlers, their threads and the retry worker never touch.
aux == <<auto, ck, pg, qs, cl, ix>>

Threads == 1..MaxThreads
Holder(t) == ToString(t)

NoRecord == [status |-> "absent", message |-> MsgMissing, attempts |-> 0]
EmptyDict == [status |-> "unset", message |-> MsgMissing, attempts |-> 0]
Present(f) == UPLOAD_STATUS[f].status # "absent"

IdleThread == [kind |-> "idle", fid |-> "", pc |-> "done", res |-> ""]
IdleReq == [op |-> "idle", fid |-> "", pc |-> ""]
IdleWorker == [pc |-> "sleep", items |-> <<>>, fid |-> "", live |-> TRUE,
               st |-> NoRecord, attempts |-> 0, res |-> ""]

IdleAuto == [restarts |-> 0, pc |-> "done", todo |-> <<>>, fid |-> ""]
IdleCk == [pc |-> "idle"]
IdlePg == [pc |-> "idle"]
IdleQs == [pc |-> "idle"]
Callers == 1..MaxCallers
IdleCl == [client |-> 0, made |-> 0, ids |-> 0, resets |-> 0,
           caller |-> [c \in Callers |-> [pc |-> "idle", got |-> 0]]]

\* The server after its first start: no status file, empty upload directory.
InitServer ==
    /\ files = [f \in FileIds |-> "absent"]
    /\ UPLOAD_STATUS = [f \in FileIds |-> NoRecord]
    /\ order = <<>>
    /\ lock = "free"
    /\ chroma = {}
    /\ req = IdleReq
    /\ thr = [t \in Threads |-> IdleThread]
    /\ w = IdleWorker
    /\ gone = [f \in FileIds |-> FALSE]
    /\ nUploads = 0
    /\ nDeletes = 0
    /\ nReindex = 0
    /\ disk = [map |-> [f \in FileIds |-> NoRecord], order |-> <<>>, torn |-> FALSE]
    /\ dups = {}
    /\ auto = IdleAuto

IdleIx == [pc |-> "idle", fid |-> "", calls |-> <<>>, ok |-> <<>>, adds |-> 0,
           res |-> "", before |-> {}, n |-> 0]

Init == InitServer /\ ck = IdleCk /\ pg = IdlePg /\ qs = IdleQs /\ cl = IdleCl /\ ix = IdleIx

\* --------------------------------------------------------------- helpers
Min(S) == CHOOSE x \in S : \A y \in S : x <= y
Max(S) == CHOOSE x \in S : \A y \in S : x >= y
FreeSlots == {t \in Threads : thr[t].kind = "idle"}

Remove(seq, f) == SelectSeq(seq, LAMBDA x : x # f)

\* A dictionary that leaves UPLOAD_STATUS stays as it was in every reference
\* the retry worker still holds to it (items of its snapshot, current st).
DetachItem(it, f) ==
    IF it.fid = f /\ it.live
    THEN [it EXCEPT !.live = FALSE, !.st = UPLOAD_STATUS[f]]
    ELSE it

Detach(f) ==
    [w EXCEPT !.items = [i \in DOMAIN w.items |-> DetachItem(w.items[i], f)],
              !.live = IF w.fid = f THEN FALSE ELSE w.live,
              !.st = IF w.fid = f /\ w.live THEN UPLOAD_STATUS[f] ELSE w.st]

\* get_upload_status between st = UPLOAD_STATUS.get(file_id) and its return.
\* req.held collects the values the record has had since that lookup; a
\* step of a thread that writes the record adds the new value.
StatusReading == req.op = "status" /\ req.pc \in {"status", "message", "attempts"}

Observed ==
    IF StatusReading
    THEN [req EXCEPT !.held = @ \cup {UPLOAD_STATUS'[req.fid]}]
    ELSE req

\* UPLOAD_STATUS[f] = {...}: a reader that holds the former dictionary of f
\* keeps reading that one.
Reassigned(f) ==
    IF StatusReading
    THEN [req EXCEPT !.held = @ \cup {UPLOAD_STATUS'[req.fid]},
                     !.live = IF req.fid = f THEN FALSE ELSE @,
                     !.st = IF req.fid = f /\ req.live THEN UPLOAD_STATUS[f] ELSE @]
    ELSE req

\* UPLOAD_STATUS.setdefault(fid, {})
setdefault(f) == IF Present(f) THEN UPLOAD_STATUS[f] ELSE EmptyDict
KeyOrder(f) == IF Present(f) THEN order ELSE Append(order, f)

\* Mutant: the status file is left as it was.
Saved_not_rewritten == disk

\* _save_upload_status(): the status file holds the dictionary as it is now.
Saved == [map |-> UPLOAD_STATUS', order |-> order', torn |-> FALSE]

\* Mutant: every result is recorded as a success.
StatusOf_always_indexed(res) == "indexed"

StatusOf(res) == IF res = "success" THEN "indexed" ELSE "error"
MessageOf(res) == IF res = "success" THEN MsgIndexed ELSE res

\* ------------------------------------------------------------ index_file
\* Existence and size check: the result, or "" to go on to extraction.
index_file_check(f) ==
    CASE files[f] = "absent" -> MsgNotFound
      [] files[f] = "empty"  -> MsgEmpty
      [] OTHER               -> ""

\* extract_text returns "" for a file it cannot open or that holds no text.
index_file_extract(f) ==
    IF files[f] = "text" THEN "" ELSE MsgNoText

\* embed_texts and store_in_chroma: either raises, or the entries are added.
StoreOutcomes == {MsgEmbedding, MsgStorage, "success"}

store_in_chroma(f, out) == IF out = "success" THEN chroma \cup {f} ELSE chroma

\* collection.add of entry ids '<file_id>_<i>' that the collection already
\* holds: index_file neither deletes the old entries first nor uses upsert,
\* so whether a second entry appears under the same id is left to the store.
collection_add(f, out) ==
    IF out = "success" /\ f \in chroma THEN {dups, dups \cup {f}} ELSE {dups}

\* ------------------------------------------------- upload_file (event loop)
upload_file_save(f, kind) ==
    /\ req.op = "idle"
    /\ nUploads < MaxUploads
    /\ files[f] = "absent"
    /\ FreeSlots # {}
    /\ files' = [files EXCEPT ![f] = kind]
    /\ req' = [op |-> "upload", fid |-> f, pc |-> "init"]
    /\ gone' = [gone EXCEPT ![f] = FALSE]
    /\ nUploads' = nUploads + 1
    /\ UNCHANGED <<UPLOAD_STATUS, order, lock, chroma, thr, w, nDeletes, nReindex,
                   disk, dups, aux>>

upload_file_init ==
    /\ req.op = "upload" /\ req.pc = "init"
    /\ lock = "free"
    /\ LET f == req.fid IN
        /\ UPLOAD_STATUS' = [UPLOAD_STATUS EXCEPT ![f] =
               [status |-> "uploaded", message |-> MsgUploaded, attempts |-> 0]]
        /\ order' = KeyOrder(f)
        /\ w' = Detach(f)
        /\ thr' = [thr EXCEPT ![Min(FreeSlots)] =
               [kind |-> "upload", fid |-> f, pc |-> "start", res |-> ""]]
    /\ req' = IdleReq
    /\ UNCHANGED <<files, lock, chroma, gone, nUploads, nDeletes, nReindex,
                   dups, aux>>
    /\ disk' = Saved

\* threading.Thread(...).start() raises: except Exception runs
\* _background_index(file_path, safe_filename) inside the request handler,
\* which returns only when that call has ended.
upload_file_init_fallback ==
    /\ req.op = "upload" /\ req.pc = "init"
    /\ lock = "free"
    /\ LET f == req.fid IN
        /\ UPLOAD_STATUS' = [UPLOAD_STATUS EXCEPT ![f] =
               [status |-> "uploaded", message |-> MsgUploaded, attempts |-> 0]]
        /\ order' = KeyOrder(f)
        /\ w' = Detach(f)
        /\ thr' = [thr EXCEPT ![Min(FreeSlots)] =
               [kind |-> "sync", fid |-> f, pc |-> "start", res |-> ""]]
    /\ req' = [req EXCEPT !.pc = "sync"]
    /\ UNCHANGED <<files, lock, chroma, gone, nUploads, nDeletes, nReindex,
                   dups, aux>>
    /\ disk' = Saved

upload_file_return ==
    /\ req.op = "upload" /\ req.pc = "sync"
    /\ \A t \in Threads : thr[t].kind # "sync"
    /\ req' = IdleReq
    /\ UNCHANGED <<files, UPLOAD_STATUS, order, lock, chroma, thr, w, gone,
                   nUploads, nDeletes, nReindex, disk, dups, aux>>

\* ------------------------------------------- get_upload_status (event loop)
\* st = UPLOAD_STATUS.get(file_id); if not st: raise HTTPException(404).
\* The handler takes no lock.
get_upload_status(f) ==
    /\ req.op = "idle"
    /\ req' = IF Present(f)
              THEN [op |-> "status", fid |-> f, pc |-> "status", live |-> TRUE,
                    st |-> NoRecord, out |-> NoRecord, held |-> {UPLOAD_STATUS[f]}]
              ELSE [op |-> "status", fid |-> f, pc |-> "not_found", live |-> TRUE,
                    st |-> NoRecord, out |-> NoRecord, held |-> {}]
    /\ UNCHANGED <<files, UPLOAD_STATUS, order, lock, chroma, thr, w, gone,
                   nUploads, nDeletes, nReindex, disk, dups, aux>>

\* st.get("status"), st.get("message"), st.get("attempts", 0): three reads
\* of the dictionary, one after the other.
get_upload_status_read ==
    /\ StatusReading
    /\ LET st == IF req.live THEN UPLOAD_STATUS[req.fid] ELSE req.st IN
        req' = CASE req.pc = "status" ->
                     [req EXCEPT !.out.status = st.status, !.pc = "message"]
                [] req.pc = "message" ->
                     [req EXCEPT !.out.message = st.message, !.pc = "attempts"]
                [] req.pc = "attempts" ->
                     [req EXCEPT !.out.attempts = st.attempts, !.pc = "return"]
    /\ UNCHANGED <<files, UPLOAD_STATUS, order, lock, chroma, thr, w, gone,
                   nUploads, nDeletes, nReindex, disk, dups, aux>>

get_upload_status_return ==
    /\ req.op = "status" /\ req.pc \in {"return", "not_found"}
    /\ req' = IdleReq
    /\ UNCHANGED <<files, UPLOAD_STATUS, order, lock, chroma, thr, w, gone,
                   nUploads, nDeletes, nReindex, disk, dups, aux>>

\* ------------------------------------------------ reindex_file (event loop)
reindex_file_upto(f, max) ==
    /\ req.op = "idle"
    /\ nReindex < max
    /\ files[f] # "absent"
    /\ FreeSlots # {}
    /\ thr' = [thr EXCEPT ![Min(FreeSlots)] =
           [kind |-> "reindex", fid |-> f, pc |-> "start", res |-> ""]]
    /\ nReindex' = nReindex + 1
    /\ UNCHANGED <<files, UPLOAD_STATUS, order, lock, chroma, req, w, gone,
                   nUploads, nDeletes,
                   disk, dups, aux>>

reindex_file(f) == reindex_file_upto(f, MaxReindex)

\* ------------------------------------------------- delete_file (event loop)
\* delete_file_from_chroma removes the entries of the file, or fails and
\* reports an error that delete_file only logs.
delete_file_from_chroma(f, ok) == IF ok THEN chroma \ {f} ELSE chroma

delete_file_vectors(f, ok) ==
    /\ req.op = "idle"
    /\ nDeletes < MaxDeletes
    /\ chroma' = delete_file_from_chroma(f, ok)
    /\ dups' = IF ok THEN dups \ {f} ELSE dups
    /\ req' = [op |-> "delete", fid |-> f, pc |-> "file"]
    /\ nDeletes' = nDeletes + 1
    /\ UNCHANGED <<files, UPLOAD_STATUS, order, lock, thr, w, gone, nUploads, nReindex,
                   disk, aux>>

\* os.remove: the file is removed, or the removal fails and the request ends
\* with HTTP 500 before the status record is touched.
delete_file_remove(ok) ==
    /\ req.op = "delete" /\ req.pc = "file"
    /\ IF files[req.fid] = "absent"
       THEN /\ ok
            /\ req' = [req EXCEPT !.pc = "status_404"]
            /\ files' = files
       ELSE IF ok
       THEN /\ files' = [files EXCEPT ![req.fid] = "absent"]
            /\ req' = [req EXCEPT !.pc = "status_ok"]
       ELSE /\ files' = files
            /\ req' = IdleReq
    /\ UNCHANGED <<UPLOAD_STATUS, order, lock, chroma, thr, w, gone,
                   nUploads, nDeletes, nReindex,
                   disk, dups, aux>>

delete_file_status ==
    /\ req.op = "delete" /\ req.pc \in {"status_ok", "status_404"}
    /\ lock = "free"
    /\ LET f == req.fid IN
        /\ UPLOAD_STATUS' = [UPLOAD_STATUS EXCEPT ![f] = NoRecord]
        /\ order' = Remove(order, f)
        /\ w' = IF Present(f) THEN Detach(f) ELSE w
        /\ gone' = [gone EXCEPT ![f] = (req.pc = "status_ok")]
    /\ req' = IdleReq
    /\ UNCHANGED <<files, lock, chroma, thr, nUploads, nDeletes, nReindex,
                   dups, aux>>
    /\ disk' = Saved

\* --------------------------------------------- clear_all_files (event loop)
\* clear_all_chroma deletes and recreates the collection, or returns an error
\* result that clear_all_files only reports.
clear_all_chroma(ok) == IF ok THEN {} ELSE chroma

clear_all_vectors(ok) ==
    /\ req.op = "idle"
    /\ nDeletes < MaxDeletes
    /\ chroma' = clear_all_chroma(ok)
    /\ dups' = IF ok THEN {} ELSE dups
    /\ req' = [op |-> "clear", fid |-> "", pc |-> "files"]
    /\ nDeletes' = nDeletes + 1
    /\ UNCHANGED <<files, UPLOAD_STATUS, order, lock, thr, w, gone, nUploads, nReindex,
                   disk, aux>>

\* os.remove of every file of the upload directory; a removal that fails is
\* logged and the file stays.
clear_all_remove(kept) ==
    /\ req.op = "clear" /\ req.pc = "files"
    /\ kept \subseteq {f \in FileIds : files[f] # "absent"}
    /\ files' = [f \in FileIds |-> IF f \in kept THEN files[f] ELSE "absent"]
    /\ req' = [req EXCEPT !.pc = "status"]
    /\ UNCHANGED <<UPLOAD_STATUS, order, lock, chroma, thr, w, gone,
                   nUploads, nDeletes, nReindex, disk, dups, aux>>

DetachAll ==
    [w EXCEPT !.items = [i \in DOMAIN w.items |->
                            IF Present(w.items[i].fid)
                            THEN DetachItem(w.items[i], w.items[i].fid)
                            ELSE w.items[i]],
              !.live = IF w.fid \in FileIds /\ Present(w.fid) THEN FALSE ELSE w.live,
              !.st = IF w.fid \in FileIds /\ Present(w.fid) /\ w.live
                     THEN UPLOAD_STATUS[w.fid] ELSE w.st]

\* with UPLOAD_STATUS_LOCK: UPLOAD_STATUS.clear(); _save_upload_status()
clear_all_status ==
    /\ req.op = "clear" /\ req.pc = "status"
    /\ lock = "free"
    /\ UPLOAD_STATUS' = [f \in FileIds |-> NoRecord]
    /\ order' = <<>>
    /\ w' = DetachAll
    /\ req' = IdleReq
    /\ UNCHANGED <<files, lock, chroma, thr, gone, nUploads, nDeletes, nReindex,
                   dups, aux>>
    /\ disk' = Saved

\* ------------------- _background_index (upload) and _bg_reindex (reindex)
Done(t) == [thr EXCEPT ![t] = IdleThread]

\* with UPLOAD_STATUS_LOCK: setdefault(fid, {}); status = "indexing"
bg_start_status(t) ==
    /\ thr[t].kind # "idle" /\ thr[t].pc = "start"
    /\ lock = "free"
    /\ LET f == thr[t].fid IN
        /\ UPLOAD_STATUS' = [UPLOAD_STATUS EXCEPT ![f] =
               [setdefault(f) EXCEPT !.status = "indexing"]]
        /\ order' = KeyOrder(f)
    /\ lock' = Holder(t)
    /\ thr' = [thr EXCEPT ![t].pc = "start2"]
    /\ UNCHANGED <<files, chroma, w, gone, nUploads, nDeletes, nReindex,
                   disk, dups, aux>>
    /\ req' = Observed

\* Mutant: the manual reindex leaves attempts as it finds them.
bg_start_message_keeps_attempts(t) ==
    /\ thr[t].pc = "start2" /\ lock = Holder(t)
    /\ LET f == thr[t].fid IN
        UPLOAD_STATUS' = [UPLOAD_STATUS EXCEPT ![f] =
            IF thr[t].kind = "reindex"
            THEN [@ EXCEPT !.message = MsgManual]
            ELSE [@ EXCEPT !.message = MsgIndexing]]
    /\ lock' = "free"
    /\ thr' = [thr EXCEPT ![t].pc = "ix_check"]
    /\ UNCHANGED <<files, order, chroma, w, gone, nUploads, nDeletes, nReindex,
                   dups, aux>>
    /\ req' = Observed
    /\ disk' = Saved

\* Mutant: the thread goes on to index_file inside the `with` block.
bg_start_message_keeps_lock(t) ==
    /\ thr[t].pc = "start2" /\ lock = Holder(t)
    /\ LET f == thr[t].fid IN
        UPLOAD_STATUS' = [UPLOAD_STATUS EXCEPT ![f] =
            IF thr[t].kind = "reindex"
            THEN [@ EXCEPT !.message = MsgManual, !.attempts = 0]
            ELSE [@ EXCEPT !.message = MsgIndexing]]
    /\ thr' = [thr EXCEPT ![t].pc = "ix_check"]
    /\ UNCHANGED <<files, order, lock, chroma, w, gone, nUploads, nDeletes,
                   nReindex, dups, aux>>
    /\ req' = Observed
    /\ disk' = Saved

\* ... message; attempts (upload: setdefault("attempts", 0), reindex: 0); save
bg_start_message(t) ==
    /\ thr[t].pc = "start2" /\ lock = Holder(t)
    /\ LET f == thr[t].fid IN
        UPLOAD_STATUS' = [UPLOAD_STATUS EXCEPT ![f] =
            IF thr[t].kind = "reindex"
            THEN [@ EXCEPT !.message = MsgManual, !.attempts = 0]
            ELSE [@ EXCEPT !.message = MsgIndexing]]
    /\ lock' = "free"
    /\ thr' = [thr EXCEPT ![t].pc = "ix_check"]
    /\ UNCHANGED <<files, order, chroma, w, gone, nUploads, nDeletes, nReindex,
                   dups, aux>>
    /\ req' = Observed
    /\ disk' = Saved

bg_index_check(t) ==
    /\ thr[t].pc = "ix_check"
    /\ LET r == index_file_check(thr[t].fid) IN
        thr' = [thr EXCEPT ![t].pc = IF r = "" THEN "ix_extract" ELSE "wb",
                           ![t].res = r]
    /\ UNCHANGED <<files, UPLOAD_STATUS, order, lock, chroma, req, w, gone,
                   nUploads, nDeletes, nReindex,
                   disk, dups, aux>>

bg_index_extract(t) ==
    /\ thr[t].pc = "ix_extract"
    /\ LET r == index_file_extract(thr[t].fid) IN
        thr' = [thr EXCEPT ![t].pc = IF r = "" THEN "ix_store" ELSE "wb",
                           ![t].res = r]
    /\ UNCHANGED <<files, UPLOAD_STATUS, order, lock, chroma, req, w, gone,
                   nUploads, nDeletes, nReindex,
                   disk, dups, aux>>

bg_index_store(t, out) ==
    /\ thr[t].pc = "ix_store"
    /\ chroma' = store_in_chroma(thr[t].fid, out)
    /\ dups' \in collection_add(thr[t].fid, out)
    /\ thr' = [thr EXCEPT ![t].pc = "wb", ![t].res = out]
    /\ UNCHANGED <<files, UPLOAD_STATUS, order, lock, req, w, gone,
                   nUploads, nDeletes, nReindex,
                   disk, aux>>

\* with UPLOAD_STATUS_LOCK: UPLOAD_STATUS[fid]["debug"] = res; status = ...
\* UPLOAD_STATUS[fid] raises KeyError when the record was deleted.
bg_writeback_status(t) ==
    /\ thr[t].pc = "wb"
    /\ lock = "free"
    /\ LET f == thr[t].fid IN
        IF Present(f)
        THEN /\ UPLOAD_STATUS' = [UPLOAD_STATUS EXCEPT ![f].status = StatusOf(thr[t].res)]
             /\ lock' = Holder(t)
             /\ thr' = [thr EXCEPT ![t].pc = "wb2"]
        ELSE /\ thr' = [thr EXCEPT ![t].pc = "exc"]
             /\ UNCHANGED <<UPLOAD_STATUS, lock>>
    /\ UNCHANGED <<files, order, chroma, w, gone, nUploads, nDeletes, nReindex,
                   disk, dups, aux>>
    /\ req' = Observed

bg_writeback_message(t) ==
    /\ thr[t].pc = "wb2" /\ lock = Holder(t)
    /\ UPLOAD_STATUS' = [UPLOAD_STATUS EXCEPT ![thr[t].fid].message = MessageOf(thr[t].res)]
    /\ lock' = "free"
    /\ thr' = Done(t)
    /\ UNCHANGED <<files, order, chroma, w, gone, nUploads, nDeletes, nReindex,
                   dups, aux>>
    /\ req' = Observed
    /\ disk' = Saved

\* except Exception of _background_index: the handler indexes UPLOAD_STATUS[fid]
\* again, so it raises out of the thread unless the record exists by now.
background_index_except(t) ==
    /\ thr[t].kind = "upload" /\ thr[t].pc = "exc"
    /\ lock = "free"
    /\ LET f == thr[t].fid IN
        IF Present(f)
        THEN /\ UPLOAD_STATUS[f].attempts < MaxAttempts
             /\ UPLOAD_STATUS' = [UPLOAD_STATUS EXCEPT ![f] =
                    [status |-> "error", message |-> MsgCritical,
                     attempts |-> @.attempts + 1]]
        ELSE UPLOAD_STATUS' = UPLOAD_STATUS
    /\ thr' = Done(t)
    /\ UNCHANGED <<files, order, lock, chroma, w, gone, nUploads, nDeletes, nReindex,
                   dups, aux>>
    /\ req' = Observed
    /\ disk' = Saved

\* except Exception of _bg_reindex: UPLOAD_STATUS[fid] = {...} with
\* attempts = UPLOAD_STATUS.get(fid, {}).get("attempts", 0) + 1
bg_reindex_except(t) ==
    /\ thr[t].kind = "reindex" /\ thr[t].pc = "exc"
    /\ lock = "free"
    /\ LET f == thr[t].fid IN
        /\ UPLOAD_STATUS[f].attempts < MaxAttempts
        /\ UPLOAD_STATUS' = [UPLOAD_STATUS EXCEPT ![f] =
               [status |-> "error", message |-> MsgKeyError,
                attempts |-> UPLOAD_STATUS[f].attempts + 1]]
        /\ order' = KeyOrder(f)
        /\ w' = IF Present(f) THEN Detach(f) ELSE w
    /\ thr' = Done(t)
    /\ UNCHANGED <<files, lock, chroma, gone, nUploads, nDeletes, nReindex,
                   dups, aux>>
    /\ req' = Reassigned(thr[t].fid)
    /\ disk' = Saved

\* ---------------------------------------------------------- _retry_worker
\* What st.get(...) reads: the dictionary of the snapshot, which is the one
\* in UPLOAD_STATUS unless that key was deleted or reassigned since.
StOf(it) == IF it.live THEN UPLOAD_STATUS[it.fid] ELSE it.st

\* Continue with the next item of the pass, or sleep when none is left.
Advance(items) ==
    [IdleWorker EXCEPT !.pc = IF items = <<>> THEN "sleep" ELSE "next",
                       !.items = items]

\* with UPLOAD_STATUS_LOCK: items = list(UPLOAD_STATUS.items())
retry_worker_snapshot ==
    /\ w.pc = "sleep"
    /\ lock = "free"
    /\ w' = Advance([i \in DOMAIN order |->
                        [fid |-> order[i], live |-> TRUE, st |-> NoRecord]])
    /\ UNCHANGED <<files, UPLOAD_STATUS, order, lock, chroma, req, thr, gone,
                   nUploads, nDeletes, nReindex,
                   disk, dups, aux>>

\* Mutant: the bound on attempts is off by one.
retry_worker_eligible_off_by_one(st) ==
    st.status = "error" /\ st.attempts < INDEX_RETRY_MAX - 1

\* status = st.get("status"); attempts = st.get("attempts", 0);
\* if status == "error" and attempts < settings.INDEX_RETRY_MAX
retry_worker_eligible(st) == st.status = "error" /\ st.attempts < INDEX_RETRY_MAX

retry_worker_read ==
    /\ w.pc = "next"
    /\ LET it == Head(w.items)
           st == StOf(it) IN
        w' = IF retry_worker_eligible(st)
             THEN [w EXCEPT !.pc = "read_msg", !.items = Tail(w.items),
                            !.fid = it.fid, !.live = it.live, !.st = it.st,
                            !.attempts = st.attempts]
             ELSE Advance(Tail(w.items))
    /\ UNCHANGED <<files, UPLOAD_STATUS, order, lock, chroma, req, thr, gone,
                   nUploads, nDeletes, nReindex,
                   disk, dups, aux>>

\* error_msg = st.get("message", "").lower(); is_permanent = any(...)
retry_worker_classify ==
    /\ w.pc = "read_msg"
    /\ LET st == StOf([fid |-> w.fid, live |-> w.live, st |-> w.st]) IN
        w' = IF is_permanent(st.message)
             THEN Advance(w.items)
             ELSE [w EXCEPT !.pc = "promote", !.live = FALSE, !.st = NoRecord]
    /\ UNCHANGED <<files, UPLOAD_STATUS, order, lock, chroma, req, thr, gone,
                   nUploads, nDeletes, nReindex,
                   disk, dups, aux>>

\* with UPLOAD_STATUS_LOCK: setdefault(fid, {}); status = "retrying";
\* attempts = attempts + 1
retry_worker_promote ==
    /\ w.pc = "promote"
    /\ lock = "free"
    /\ UPLOAD_STATUS' = [UPLOAD_STATUS EXCEPT ![w.fid] =
           [setdefault(w.fid) EXCEPT !.status = "retrying",
                                     !.attempts = w.attempts + 1]]
    /\ order' = KeyOrder(w.fid)
    /\ lock' = "worker"
    /\ w' = [w EXCEPT !.pc = "promote2"]
    /\ UNCHANGED <<files, chroma, thr, gone, nUploads, nDeletes, nReindex,
                   disk, dups, aux>>
    /\ req' = Observed

retry_worker_promote_message ==
    /\ w.pc = "promote2" /\ lock = "worker"
    /\ UPLOAD_STATUS' = [UPLOAD_STATUS EXCEPT ![w.fid].message = MsgRetrying]
    /\ lock' = "free"
    /\ w' = [w EXCEPT !.pc = "ix_check", !.attempts = 0]
    /\ UNCHANGED <<files, order, chroma, thr, gone, nUploads, nDeletes, nReindex,
                   dups, aux>>
    /\ req' = Observed
    /\ disk' = Saved

retry_worker_index_check ==
    /\ w.pc = "ix_check"
    /\ LET r == index_file_check(w.fid) IN
        w' = [w EXCEPT !.pc = IF r = "" THEN "ix_extract" ELSE "wb", !.res = r]
    /\ UNCHANGED <<files, UPLOAD_STATUS, order, lock, chroma, req, thr, gone,
                   nUploads, nDeletes, nReindex,
                   disk, dups, aux>>

retry_worker_index_extract ==
    /\ w.pc = "ix_extract"
    /\ LET r == index_file_extract(w.fid) IN
        w' = [w EXCEPT !.pc = IF r = "" THEN "ix_store" ELSE "wb", !.res = r]
    /\ UNCHANGED <<files, UPLOAD_STATUS, order, lock, chroma, req, thr, gone,
                   nUploads, nDeletes, nReindex,
                   disk, dups, aux>>

retry_worker_index_store(out) ==
    /\ w.pc = "ix_store"
    /\ chroma' = store_in_chroma(w.fid, out)
    /\ dups' \in collection_add(w.fid, out)
    /\ w' = [w EXCEPT !.pc = "wb", !.res = out]
    /\ UNCHANGED <<files, UPLOAD_STATUS, order, lock, req, thr, gone,
                   nUploads, nDeletes, nReindex,
                   disk, aux>>

\* with UPLOAD_STATUS_LOCK: UPLOAD_STATUS[fid]["debug"] = res; status = ...
retry_worker_writeback_status ==
    /\ w.pc = "wb"
    /\ lock = "free"
    /\ IF Present(w.fid)
       THEN /\ UPLOAD_STATUS' = [UPLOAD_STATUS EXCEPT ![w.fid].status = StatusOf(w.res)]
            /\ lock' = "worker"
            /\ w' = [w EXCEPT !.pc = "wb2"]
       ELSE /\ w' = [w EXCEPT !.pc = "exc", !.res = ""]
            /\ UNCHANGED <<UPLOAD_STATUS, lock>>
    /\ UNCHANGED <<files, order, chroma, thr, gone, nUploads, nDeletes, nReindex,
                   disk, dups, aux>>
    /\ req' = Observed

retry_worker_writeback_message ==
    /\ w.pc = "wb2" /\ lock = "worker"
    /\ UPLOAD_STATUS' = [UPLOAD_STATUS EXCEPT ![w.fid].message = MessageOf(w.res)]
    /\ lock' = "free"
    /\ w' = Advance(w.items)
    /\ UNCHANGED <<files, order, chroma, thr, gone, nUploads, nDeletes, nReindex,
                   dups, aux>>
    /\ req' = Observed
    /\ disk' = Saved

\* Mutant: no except around the item, so the KeyError raised by the handler
\* ends the worker thread.
retry_worker_except_unguarded ==
    /\ w.pc = "exc"
    /\ lock = "free"
    /\ UPLOAD_STATUS' =
           IF Present(w.fid)
           THEN [UPLOAD_STATUS EXCEPT ![w.fid].status = "error",
                                      ![w.fid].message = MsgRetryExc]
           ELSE UPLOAD_STATUS
    /\ w' = IF Present(w.fid) THEN Advance(w.items) ELSE [w EXCEPT !.pc = "dead"]
    /\ UNCHANGED <<files, order, lock, chroma, thr, gone, nUploads, nDeletes, nReindex,
                   dups, aux>>
    /\ req' = Observed
    /\ disk' = Saved

\* except Exception as e (inner): writes the error unless UPLOAD_STATUS[fid]
\* raises again; that KeyError is caught by the except of the item loop.
retry_worker_except ==
    /\ w.pc = "exc"
    /\ lock = "free"
    /\ UPLOAD_STATUS' =
           IF Present(w.fid)
           THEN [UPLOAD_STATUS EXCEPT ![w.fid].status = "error",
                                      ![w.fid].message = MsgRetryExc]
           ELSE UPLOAD_STATUS
    /\ w' = Advance(w.items)
    /\ UNCHANGED <<files, order, lock, chroma, thr, gone, nUploads, nDeletes, nReindex,
                   dups, aux>>
    /\ req' = Observed
    /\ disk' = Saved

\* ------------------------------------------------------------------ Next
FileKinds == {"empty", "notext", "text"}

BgNext ==
    \/ \E t \in Threads : bg_start_status(t)
    \/ \E t \in Threads : bg_start_message(t)
    \/ \E t \in Threads : bg_index_check(t)
    \/ \E t \in Threads : bg_index_extract(t)
    \/ \E t \in Threads, out \in StoreOutcomes : bg_index_store(t, out)
    \/ \E t \in Threads : bg_writeback_status(t)
    \/ \E t \in Threads : bg_writeback_message(t)

WorkerNext ==
    \/ retry_worker_snapshot
    \/ retry_worker_read
    \/ retry_worker_classify
    \/ retry_worker_promote
    \/ retry_worker_promote_message
    \/ retry_worker_index_check
    \/ retry_worker_index_extract
    \/ \E out \in StoreOutcomes : retry_worker_index_store(out)
    \/ retry_worker_writeback_status
    \/ retry_worker_writeback_message

\* Requests for one file name: upload, manual reindex and delete, with the
\* threads they start and the retry worker.
Next ==
    \/ \E f \in Names, kind \in FileKinds : upload_file_save(f, kind)
    \/ upload_file_init
    \/ \E f \in Names : reindex_file(f)
    \/ \E f \in Names, ok \in BOOLEAN : delete_file_vectors(f, ok)
    \/ \E ok \in BOOLEAN : delete_file_remove(ok)
    \/ delete_file_status
    \/ \E ok \in BOOLEAN : clear_all_vectors(ok)
    \/ \E kept \in SUBSET Names : clear_all_remove(kept)
    \/ clear_all_status
    \/ BgNext
    \/ \E t \in Threads : background_index_except(t)
    \/ \E t \in Threads : bg_reindex_except(t)
    \/ WorkerNext
    \/ retry_worker_except

Spec == Init /\ [][Next]_vars

\* Uploads and deletes of several files, no manual reindex.
NextTwo ==
    \/ \E f \in FileIds, kind \in FileKinds : upload_file_save(f, kind)
    \/ upload_file_init
    \/ \E f \in FileIds, ok \in BOOLEAN : delete_file_vectors(f, ok)
    \/ \E ok \in BOOLEAN : delete_file_remove(ok)
    \/ delete_file_status
    \/ BgNext
    \/ \E t \in Threads : background_index_except(t)
    \/ WorkerNext
    \/ retry_worker_except

BgStep == BgNext \/ \E t \in Threads : background_index_except(t)
WorkerStep == WorkerNext \/ retry_worker_except

SpecTwo == Init /\ [][NextTwo]_vars /\ WF_vars(BgStep) /\ WF_vars(WorkerStep)

\* The automatic path alone: uploads, their threads and the retry worker.
\* Every started thread runs on and every index_file call returns.
NextAuto ==
    \/ \E f \in FileIds, kind \in FileKinds : upload_file_save(f, kind)
    \/ upload_file_init
    \/ BgNext
    \/ WorkerNext

SpecAuto ==
    Init /\ [][NextAuto]_vars /\ WF_vars(BgNext) /\ WF_vars(WorkerNext)

\* --------------------------------------------- process restart (main.py)
\* Orders in which os.listdir can return the files of the upload directory.
Listings ==
    LET present == {f \in FileIds : files[f] # "absent"} IN
    {seq \in UNION {[1..n -> present] : n \in 0..Cardinality(present)} :
        /\ Len(seq) = Cardinality(present)
        /\ \A i, j \in DOMAIN seq : i # j => seq[i] # seq[j]}

\* _load_upload_status: the map of the status file; {} when the file is
\* missing or json.load raises.
load_upload_status(d) ==
    IF d.torn THEN [map |-> [f \in FileIds |-> NoRecord], order |-> <<>>]
    ELSE [map |-> d.map, order |-> d.order]

\* The process stops, whatever its threads are doing, and is started again:
\* upload.py is imported (UPLOAD_STATUS = _load_upload_status(), a new lock,
\* a new retry worker) and lifespan starts the auto-index thread over the
\* files it finds.  Files, index entries and the status file stay.
restart ==
    /\ auto.restarts < MaxRestarts
    /\ UPLOAD_STATUS' = load_upload_status(disk).map
    /\ order' = load_upload_status(disk).order
    /\ lock' = "free"
    /\ req' = IdleReq
    /\ thr' = [t \in Threads |-> IdleThread]
    /\ w' = IdleWorker
    /\ \E seq \in Listings :
           auto' = [restarts |-> auto.restarts + 1,
                    pc |-> IF seq = <<>> THEN "done" ELSE "next",
                    todo |-> seq, fid |-> ""]
    /\ UNCHANGED <<files, chroma, gone, nUploads, nDeletes, nReindex, disk, dups, ck, pg, qs, cl, ix>>

\* auto_index_files: for filename in files: index_file(file_path, file_id=filename);
\* the result is logged and UPLOAD_STATUS is not touched.
auto_index_next ==
    /\ auto.pc = "next"
    /\ auto' = IF auto.todo = <<>>
               THEN [auto EXCEPT !.pc = "done", !.fid = ""]
               ELSE [auto EXCEPT !.pc = "ix_check", !.fid = Head(auto.todo),
                                 !.todo = Tail(auto.todo)]
    /\ UNCHANGED <<files, UPLOAD_STATUS, order, lock, chroma, req, thr, w, gone,
                   nUploads, nDeletes, nReindex, disk, dups, ck, pg, qs, cl, ix>>

auto_index_check ==
    /\ auto.pc = "ix_check"
    /\ auto' = [auto EXCEPT !.pc = IF index_file_check(auto.fid) = ""
                                   THEN "ix_extract" ELSE "next"]
    /\ UNCHANGED <<files, UPLOAD_STATUS, order, lock, chroma, req, thr, w, gone,
                   nUploads, nDeletes, nReindex, disk, dups, ck, pg, qs, cl, ix>>

auto_index_extract ==
    /\ auto.pc = "ix_extract"
    /\ auto' = [auto EXCEPT !.pc = IF index_file_extract(auto.fid) = ""
                                   THEN "ix_store" ELSE "next"]
    /\ UNCHANGED <<files, UPLOAD_STATUS, order, lock, chroma, req, thr, w, gone,
                   nUploads, nDeletes, nReindex, disk, dups, ck, pg, qs, cl, ix>>

auto_index_store(out) ==
    /\ auto.pc = "ix_store"
    /\ chroma' = store_in_chroma(auto.fid, out)
    /\ dups' \in collection_add(auto.fid, out)
    /\ auto' = [auto EXCEPT !.pc = "next"]
    /\ UNCHANGED <<files, UPLOAD_STATUS, order, lock, req, thr, w, gone,
                   nUploads, nDeletes, nReindex, disk, ck, pg, qs, cl, ix>>

AutoNext ==
    \/ auto_index_next
    \/ auto_index_check
    \/ auto_index_extract
    \/ \E out \in StoreOutcomes : auto_index_store(out)

\* The steps that end with _save_upload_status() after writing a record.
SaveStep ==
    \/ upload_file_init
    \/ \E t \in Threads :
          \/ bg_start_message(t)
          \/ bg_writeback_message(t)
          \/ background_index_except(t)
    \/ retry_worker_promote_message
    \/ retry_worker_writeback_message
    \/ retry_worker_except

\* The process dies inside _save_upload_status of such a step, after
\* open(UPLOAD_STATUS_FILE, "w") has truncated the file and before json.dump
\* has written all of it, and is started again.
crash_in_save ==
    /\ auto.restarts < MaxRestarts
    /\ ENABLED SaveStep
    /\ disk' = [disk EXCEPT !.torn = TRUE]
    /\ UPLOAD_STATUS' = load_upload_status(disk').map
    /\ order' = load_upload_status(disk').order
    /\ lock' = "free"
    /\ req' = IdleReq
    /\ thr' = [t \in Threads |-> IdleThread]
    /\ w' = IdleWorker
    /\ \E seq \in Listings :
           auto' = [restarts |-> auto.restarts + 1,
                    pc |-> IF seq = <<>> THEN "done" ELSE "next",
                    todo |-> seq, fid |-> ""]
    /\ UNCHANGED <<files, chroma, gone, nUploads, nDeletes, nReindex, dups, ck, pg, qs, cl, ix>>

\* The automatic path with a crash of the process during a save.
NextCrash ==
    \/ \E f \in FileIds, kind \in FileKinds : upload_file_save(f, kind)
    \/ upload_file_init
    \/ BgNext
    \/ WorkerNext
    \/ crash_in_save
    \/ AutoNext

SpecCrash == Init /\ [][NextCrash]_vars

\* The automatic path with a stop and restart of the process at any moment.
NextRestart ==
    \/ \E f \in FileIds, kind \in FileKinds : upload_file_save(f, kind)
    \/ upload_file_init
    \/ BgNext
    \/ WorkerNext
    \/ restart
    \/ AutoNext

SpecRestart ==
    Init /\ [][NextRestart]_vars
         /\ WF_vars(BgNext) /\ WF_vars(WorkerNext) /\ WF_vars(AutoNext)

\* The automatic path of one file name with status polling.
NextStatus ==
    \/ \E f \in Names, kind \in FileKinds : upload_file_save(f, kind)
    \/ upload_file_init
    \/ \E f \in Names : get_upload_status(f)
    \/ get_upload_status_read
    \/ get_upload_status_return
    \/ BgNext

SpecStatus == Init /\ [][NextStatus]_vars

\* The automatic path where starting the background thread can fail.
NextSync ==
    \/ \E f \in FileIds, kind \in FileKinds : upload_file_save(f, kind)
    \/ upload_file_init
    \/ upload_file_init_fallback
    \/ upload_file_return
    \/ BgNext
    \/ WorkerNext

SpecSync == Init /\ [][NextSync]_vars

\* ------------------------------------------------- a call that never returns
\* extract_text or embed_texts does not return: the caller set no alarm and
\* no timer (timeout_handler is defined and never installed), so the thread
\* stays inside index_file.
bg_index_hang(t) ==
    /\ thr[t].pc \in {"ix_extract", "ix_store"}
    /\ thr' = [thr EXCEPT ![t].pc = "hung"]
    /\ UNCHANGED <<files, UPLOAD_STATUS, order, lock, chroma, req, w, gone,
                   nUploads, nDeletes, nReindex, disk, dups, aux>>

retry_worker_index_hang ==
    /\ w.pc \in {"ix_extract", "ix_store"}
    /\ w' = [w EXCEPT !.pc = "hung"]
    /\ UNCHANGED <<files, UPLOAD_STATUS, order, lock, chroma, req, thr, gone,
                   nUploads, nDeletes, nReindex, disk, dups, aux>>

\* The automatic path and manual reindex with stages that can get stuck.
NextHang ==
    \/ \E f \in Names, kind \in FileKinds : upload_file_save(f, kind)
    \/ upload_file_init
    \/ \E f \in Names : reindex_file(f)
    \/ BgNext
    \/ WorkerNext
    \/ \E t \in Threads : bg_index_hang(t)
    \/ retry_worker_index_hang

SpecHang == Init /\ [][NextHang]_vars /\ WF_vars(BgNext) /\ WF_vars(WorkerNext)

\* One uploaded file and manual reindex requests for it that overlap.
NextReindex ==
    \/ \E f \in Names, kind \in FileKinds : upload_file_save(f, kind)
    \/ upload_file_init
    \/ \E f \in Names : reindex_file_upto(f, MaxConcurrentReindex)
    \/ BgNext

SpecReindex == Init /\ [][NextReindex]_vars /\ WF_vars(BgNext)

\* ------------------------------------------------------------- chunking
\* The two character chunkers: ingest.chunk_text, which index_file calls, and
\* ChunkingStrategy.chunk_by_characters reached through ChunkingStrategy.chunk.
\* Offsets are 0-based as in the source; text[i + 1] is the character at
\* offset i.  A chunk is kept as the pair <<lo, hi>> of the slice text[lo:hi]
\* it copies.
server == <<files, UPLOAD_STATUS, order, lock, chroma, req, thr, w, gone,
            nUploads, nDeletes, nReindex, disk, dups, auto>>

Texts == UNION {[1..n -> {"a", " "}] : n \in 1..MaxText}
boundary_lookback == 100
min_chunk_size_default == 100

ChunkCalls ==
    [pc : {"call"}, fn : {"chunk_text", "chunk_by_characters"},
     text : Texts, chunk_size : 2..MaxChunkSize, overlap : 0..(MaxChunkSize - 1),
     min_chunk_size : {MinChunkSmall, min_chunk_size_default}, respect_sentences : BOOLEAN,
     start : {0}, chunks : {<<>>}, iter : {0}]

InitChunk ==
    /\ InitServer
    /\ ck \in {c \in ChunkCalls : c.overlap < c.chunk_size}
    /\ pg = IdlePg
    /\ qs = IdleQs
    /\ cl = IdleCl
    /\ ix = IdleIx

\* str.rfind(' ') on text[lo:hi]: offset of the last space inside the slice,
\* -1 when the slice has none.
rfind_space(text, lo, hi) ==
    LET S == {i \in lo..(hi - 1) : text[i + 1] = " "}
    IN IF S = {} THEN -1 ELSE Max(S) - lo

\* text[lo:hi].strip(): the slice without leading and trailing whitespace;
\* <<lo, lo>> when nothing is left.
strip(text, lo, hi) ==
    LET S == {i \in lo..(hi - 1) : text[i + 1] # " "}
    IN IF S = {} THEN <<lo, lo>> ELSE <<Min(S), Max(S) + 1>>

\* ChunkingStrategy.chunk: empty result for a blank text, otherwise the
\* character strategy (the alphabet has no sentence end and no blank line).
\* ingest.chunk_text: empty result for an empty text.
chunk_call ==
    /\ ck.pc = "call"
    /\ ck' = [ck EXCEPT !.pc =
                 IF ck.fn = "chunk_by_characters"
                    /\ \A i \in 1..Len(ck.text) : ck.text[i] = " "
                 THEN "done" ELSE "loop"]
    /\ UNCHANGED <<server, pg, qs, cl, ix>>

\* One iteration of `while start < length` of chunk_by_characters.
chunk_by_characters_end(c) ==
    LET length == Len(c.text)
        end0 == Min({c.start + c.chunk_size, length})
        lo == Max({c.start, end0 - boundary_lookback})
        last_space == rfind_space(c.text, lo, end0)
    IN IF end0 < length /\ c.respect_sentences /\ last_space > 0
       THEN lo + last_space ELSE end0

chunk_by_characters_iter(c) ==
    LET length == Len(c.text)
        end == chunk_by_characters_end(c)
        chunk == strip(c.text, c.start, end)
        n == chunk[2] - chunk[1]
        start1 == IF end < length THEN end - c.overlap ELSE end
    IN [c EXCEPT !.chunks = IF n > 0 /\ n >= c.min_chunk_size
                            THEN Append(c.chunks, chunk) ELSE c.chunks,
                 !.start = IF start1 <= 0 THEN end ELSE start1,
                 !.iter = c.iter + 1]

\* One iteration of `while start < length` of chunk_text.
chunk_text_iter(c) ==
    LET length == Len(c.text)
        end == Min({c.start + c.chunk_size, length})
    IN [c EXCEPT !.chunks = Append(c.chunks, <<c.start, end>>),
                 !.start = IF end < length THEN end - c.overlap ELSE end,
                 !.iter = c.iter + 1]

chunk_loop ==
    /\ ck.pc = "loop"
    /\ ck.start < Len(ck.text)
    /\ ck.iter < MaxIter
    /\ ck' = IF ck.fn = "chunk_text" THEN chunk_text_iter(ck)
                                     ELSE chunk_by_characters_iter(ck)
    /\ UNCHANGED <<server, pg, qs, cl, ix>>

chunk_return ==
    /\ ck.pc = "loop"
    /\ ck.start >= Len(ck.text)
    /\ ck' = [ck EXCEPT !.pc = "done"]
    /\ UNCHANGED <<server, pg, qs, cl, ix>>

NextChunk == chunk_call \/ chunk_loop \/ chunk_return

SpecChunk == InitChunk /\ [][NextChunk]_vars /\ WF_vars(NextChunk)

\* --------------------------------------------------- paragraph chunking
\* ChunkingStrategy.chunk on a document of three paragraphs separated by a
\* blank line, with the default chunk_size and overlap.  A paragraph is
\* [len, n]: len characters in n sentences joined by one space, the
\* characters spread evenly over the sentences.  A chunk is kept as its
\* length in characters.
chunk_size_default == 1000
overlap_default == 200
sentence_min_len == 10
ParaSepLen == 2

ParaLens == {k * ParaStep : k \in 1..MaxParaSteps}
Docs ==
    {<<[len |-> a, n |-> na], [len |-> b, n |-> nb],
       [len |-> DocTotal - 2 * ParaSepLen - a - b, n |-> nc]>> :
        <<a, b, na, nb, nc>> \in
            {x \in ParaLens \X ParaLens \X (1..MaxSentences)
                   \X (1..MaxSentences) \X (1..MaxSentences) :
                 DocTotal - 2 * ParaSepLen - x[1] - x[2] >= MaxSentences}}

DocLen(d) == d[1].len + d[2].len + d[3].len + 2 * ParaSepLen

InitPara ==
    /\ InitServer
    /\ ck = IdleCk
    /\ pg \in [pc : {"call"}, doc : Docs, chunk_size : {chunk_size_default},
               overlap : {overlap_default}, i : {1}, chunks : {<<>>},
               current_chunk : {<<>>}, current_length : {0},
               result : {<<>>}, strategy : {""}]
    /\ qs = IdleQs
    /\ cl = IdleCl
    /\ ix = IdleIx

RECURSIVE SumSeq(_)
SumSeq(q) == IF q = <<>> THEN 0 ELSE Head(q) + SumSeq(Tail(q))

\* len(sep.join(parts)) for parts given by their lengths
JoinLen(parts, sep) == SumSeq(parts) + sep * (Len(parts) - 1)

\* split_into_sentences on one paragraph: the sentence lengths, sentences of
\* at most 10 characters filtered out.
split_into_sentences(para) ==
    LET body == para.len - (para.n - 1)
        base == body \div para.n
        extra == body % para.n
        all == [k \in 1..para.n |-> IF k <= extra THEN base + 1 ELSE base]
    IN SelectSeq(all, LAMBDA l : l > sentence_min_len)

\* the sentences taken from the end of current_chunk while they fit in
\* `overlap`
RECURSIVE overlap_sentences(_, _, _, _)
overlap_sentences(cur, k, acc, overlap) ==
    IF k = 0 THEN acc
    ELSE IF SumSeq(acc) + cur[k] <= overlap
         THEN overlap_sentences(cur, k - 1, <<cur[k]>> \o acc, overlap)
         ELSE acc

RECURSIVE chunk_by_sentences_from(_, _, _, _, _, _)
chunk_by_sentences_from(sents, k, chunks, cur, chunk_size, overlap) ==
    IF k > Len(sents)
    THEN IF cur # <<>> THEN Append(chunks, JoinLen(cur, 1)) ELSE chunks
    ELSE IF SumSeq(cur) + sents[k] > chunk_size /\ cur # <<>>
         THEN chunk_by_sentences_from(sents, k + 1,
                  Append(chunks, JoinLen(cur, 1)),
                  Append(overlap_sentences(cur, Len(cur), <<>>, overlap), sents[k]),
                  chunk_size, overlap)
         ELSE chunk_by_sentences_from(sents, k + 1, chunks,
                  Append(cur, sents[k]), chunk_size, overlap)

chunk_by_sentences(para, chunk_size, overlap) ==
    chunk_by_sentences_from(split_into_sentences(para), 1, <<>>, <<>>,
                            chunk_size, overlap)

\* ChunkingStrategy.chunk with strategy 'auto': a text with a blank line and
\* longer than chunk_size goes to chunk_by_paragraphs.
chunk_auto ==
    /\ pg.pc = "call"
    /\ DocLen(pg.doc) > pg.chunk_size
    /\ pg' = [pg EXCEPT !.pc = "loop", !.strategy = "paragraphs"]
    /\ UNCHANGED <<server, ck, qs, cl, ix>>

\* One iteration of `for para in paragraphs` of chunk_by_paragraphs.
chunk_by_paragraphs_iter(c) ==
    LET para == c.doc[c.i]
        flushed == IF c.current_chunk # <<>>
                   THEN Append(c.chunks, JoinLen(c.current_chunk, ParaSepLen))
                   ELSE c.chunks
        last == c.current_chunk[Len(c.current_chunk)]
    IN IF 2 * para.len > 3 * c.chunk_size
       THEN [c EXCEPT !.chunks = flushed \o
                          chunk_by_sentences(para, c.chunk_size, c.overlap),
                      !.current_chunk = <<>>, !.current_length = 0,
                      !.i = c.i + 1]
       ELSE IF c.current_length + para.len > c.chunk_size /\ c.current_chunk # <<>>
       THEN IF last <= c.overlap
            THEN [c EXCEPT !.chunks = flushed,
                           !.current_chunk = <<last, para.len>>,
                           !.current_length = last + para.len,
                           !.i = c.i + 1]
            ELSE [c EXCEPT !.chunks = flushed,
                           !.current_chunk = <<para.len>>,
                           !.current_length = para.len,
                           !.i = c.i + 1]
       ELSE [c EXCEPT !.current_chunk = Append(c.current_chunk, para.len),
                      !.current_length = c.current_length + para.len,
                      !.i = c.i + 1]

chunk_by_paragraphs_loop ==
    /\ pg.pc = "loop"
    /\ pg.i <= Len(pg.doc)
    /\ pg' = chunk_by_paragraphs_iter(pg)
    /\ UNCHANGED <<server, ck, qs, cl, ix>>

\* The final chunk, then the metadata chunk() adds: index i for the i-th
\* chunk of enumerate(chunks).
chunk_by_paragraphs_return ==
    /\ pg.pc = "loop"
    /\ pg.i > Len(pg.doc)
    /\ LET chunks == IF pg.current_chunk # <<>>
                     THEN Append(pg.chunks, JoinLen(pg.current_chunk, ParaSepLen))
                     ELSE pg.chunks
       IN pg' = [pg EXCEPT !.pc = "done", !.chunks = chunks,
                    !.result = [k \in 1..Len(chunks) |->
                                   [length |-> chunks[k], index |-> k - 1]]]
    /\ UNCHANGED <<server, ck, qs, cl, ix>>

NextPara == chunk_auto \/ chunk_by_paragraphs_loop \/ chunk_by_paragraphs_return

SpecPara == InitPara /\ [][NextPara]_vars

\* ------------------------------------------------- index_file (ingest.py)
\* One call of index_file(file_path, file_id) followed stage by stage, on any
\* content of the upload directory.  ix.calls lists the stages invoked so far,
\* ix.ok whether each returned normally with something to pass on, ix.adds
\* counts the calls of collection.add.
Stages == <<"check", "extract", "chunk", "embed", "store">>

InitIndex ==
    /\ files \in [FileIds -> {"absent", "empty", "notext", "text"}]
    /\ UPLOAD_STATUS = [f \in FileIds |-> NoRecord]
    /\ order = <<>>
    /\ lock = "free"
    /\ chroma = {}
    /\ req = IdleReq
    /\ thr = [t \in Threads |-> IdleThread]
    /\ w = IdleWorker
    /\ gone = [f \in FileIds |-> FALSE]
    /\ nUploads = 0
    /\ nDeletes = 0
    /\ nReindex = 0
    /\ disk = [map |-> [f \in FileIds |-> NoRecord], order |-> <<>>, torn |-> FALSE]
    /\ dups = {}
    /\ auto = IdleAuto
    /\ ck = IdleCk
    /\ pg = IdlePg
    /\ qs = IdleQs
    /\ cl = IdleCl
    /\ ix = IdleIx

index_file_enter(f) ==
    /\ ix.pc = "idle"
    /\ ix.n < MaxIndexCalls
    /\ ix' = [pc |-> "check", fid |-> f, calls |-> <<>>, ok |-> <<>>, adds |-> 0,
              res |-> "", before |-> chroma, n |-> ix.n + 1]
    /\ UNCHANGED <<server, ck, pg, qs, cl>>

\* What a stage hands to index_file: "" to go on, or the message of the error
\* dictionary that index_file returns.  raised: the stage raised an exception;
\* none: chunk_text returned no chunk.
stage_result(stage, f, raised, none) ==
    CASE stage = "check" ->
             IF index_file_check(f) # "" THEN index_file_check(f)
             ELSE IF raised THEN "Error checking file: e" ELSE ""
      [] stage = "extract" ->
             IF raised THEN "Text extraction failed: e" ELSE index_file_extract(f)
      [] stage = "chunk" ->
             IF raised THEN "Text chunking failed: e"
             ELSE IF none THEN "No text chunks could be created from extracted text"
             ELSE ""
      [] stage = "embed" -> IF raised THEN MsgEmbedding ELSE ""
      [] stage = "store" -> IF raised THEN MsgStorage ELSE ""

\* A stage that returns an error ends index_file: each stage is in a try
\* block whose failure branches return.
index_file_returns_always_continue(r) == FALSE

index_file_returns(r) == r # ""

index_file_stage(raised, none) ==
    /\ ix.pc \in {"check", "extract", "chunk", "embed", "store"}
    /\ none => ix.pc = "chunk" /\ ~raised
    /\ LET f == ix.fid
           r == stage_result(ix.pc, f, raised, none)
           out == IF r = "" THEN "success" ELSE r
           after == CASE ix.pc = "check"   -> "extract"
                      [] ix.pc = "extract" -> "chunk"
                      [] ix.pc = "chunk"   -> "embed"
                      [] ix.pc = "embed"   -> "store"
                      [] ix.pc = "store"   -> "return"
       IN
        /\ ix' = [ix EXCEPT
                    !.calls = Append(@, ix.pc),
                    !.ok = Append(@, r = ""),
                    !.adds = IF ix.pc = "store" THEN @ + 1 ELSE @,
                    !.res = IF ix.pc = "store" \/ r # "" THEN out ELSE @,
                    !.pc = IF index_file_returns(r) THEN "return" ELSE after]
        /\ chroma' = IF ix.pc = "store" THEN store_in_chroma(f, out) ELSE chroma
        /\ dups' \in IF ix.pc = "store" THEN collection_add(f, out) ELSE {dups}
    /\ UNCHANGED <<files, UPLOAD_STATUS, order, lock, req, thr, w, gone,
                   nUploads, nDeletes, nReindex, disk, auto, ck, pg, qs, cl>>

index_file_return ==
    /\ ix.pc = "return"
    /\ ix' = [IdleIx EXCEPT !.n = ix.n]
    /\ UNCHANGED <<server, ck, pg, qs, cl>>

NextIndex ==
    \/ \E f \in FileIds : index_file_enter(f)
    \/ \E raised, none \in BOOLEAN : index_file_stage(raised, none)
    \/ index_file_return

SpecIndex == InitIndex /\ [][NextIndex]_vars

\* ------------------------------------------------ chroma_client.py
\* cl.client is the module global _client (0: None, otherwise the number of
\* the chromadb.Client instance), cl.ids the instances created so far,
\* cl.made those created since the last reset_client().  Each caller is a
\* thread of the process.
\* if _client is not None: return _client
get_chroma_client_check(c) ==
    /\ cl.caller[c].pc = "idle"
    /\ cl' = IF cl.client # 0
             THEN [cl EXCEPT !.caller[c] = [pc |-> "done", got |-> cl.client]]
             ELSE [cl EXCEPT !.caller[c].pc = "create"]
    /\ UNCHANGED <<server, ck, pg, qs, ix>>

\* _client = chromadb.Client(...)
get_chroma_client_create(c) ==
    /\ cl.caller[c].pc = "create"
    /\ cl.ids < MaxClients
    /\ cl' = [cl EXCEPT !.client = cl.ids + 1, !.ids = @ + 1, !.made = @ + 1,
                        !.caller[c].pc = "return"]
    /\ UNCHANGED <<server, ck, pg, qs, ix>>

\* return _client
get_chroma_client_return(c) ==
    /\ cl.caller[c].pc = "return"
    /\ cl' = [cl EXCEPT !.caller[c] = [pc |-> "done", got |-> cl.client]]
    /\ UNCHANGED <<server, ck, pg, qs, ix>>

\* store_in_chroma, delete_file_from_chroma and clear_all_chroma:
\* client = chromadb.Client(...), a local of the call.
own_client(c) ==
    /\ cl.caller[c].pc = "idle"
    /\ cl.ids < MaxClients
    /\ cl' = [cl EXCEPT !.ids = @ + 1, !.made = @ + 1,
                        !.caller[c] = [pc |-> "done", got |-> cl.ids + 1]]
    /\ UNCHANGED <<server, ck, pg, qs, ix>>

\* The caller has used the client it got.
client_released(c) ==
    /\ cl.caller[c].pc = "done"
    /\ cl' = [cl EXCEPT !.caller[c] = [pc |-> "idle", got |-> 0]]
    /\ UNCHANGED <<server, ck, pg, qs, ix>>

reset_client ==
    /\ cl.resets < MaxResets
    /\ cl' = [cl EXCEPT !.client = 0, !.made = 0, !.resets = @ + 1]
    /\ UNCHANGED <<server, ck, pg, qs, ix>>

NextClient ==
    \/ \E c \in Callers : get_chroma_client_check(c)
    \/ \E c \in Callers : get_chroma_client_create(c)
    \/ \E c \in Callers : get_chroma_client_return(c)
    \/ \E c \in Callers : own_client(c)
    \/ \E c \in Callers : client_released(c)
    \/ reset_client

SpecClient == Init /\ [][NextClient]_vars

\* --------------------------------------------------------- query engine
\* query.semantic_search, embeddings.embed_query and
\* embeddings.generate_embeddings.  A Python value is [atom |-> x] or
\* [list |-> <<values>>], so that isinstance(x, list) can be asked of it.
\* qs.calls is the sequence of collaborators the call has invoked so far.
Atom(x) == [atom |-> x]
List(q) == [list |-> q]
None == Atom("None")
isinstance_list(x) == "list" \in DOMAIN x
Atoms(q) == [k \in 1..Len(q) |-> Atom(q[k])]

Queries == {"", " ", "  ", "q"}
\* str.strip() on these queries
query_strip_keeps_spaces(q) == q
query_strip(q) == IF q \in {" ", "  "} THEN "" ELSE q
SeqsUpTo(S, n) == UNION {[1..k -> S] : k \in 0..n}

\* What collection.query returns for one query embedding: `flat` lists or
\* lists nested one level, one inner list per query embedding.
Shaped(shape, q) ==
    IF shape = "nested" THEN List(<<List(Atoms(q))>>) ELSE List(Atoms(q))

Reply(c) ==
    [documents |-> Shaped(c.shape, c.docs),
     metadatas |-> Shaped(c.shape, c.metas),
     distances |-> Shaped(c.shape, c.dists)]

QueryCalls ==
    [pc : {"call"}, fn : {"semantic_search", "embed_query", "generate_embeddings"},
     query : Queries, texts : SeqsUpTo({"q"}, 1), top_k : 1..MaxTopK,
     shape : {"flat", "nested"}, docs : SeqsUpTo({"d1", "d2"}, MaxHits),
     metas : SeqsUpTo({"m1", "m2"}, MaxHits),
     dists : SeqsUpTo({"0.1", "0.2"}, MaxHits),
     calls : {<<>>}, embedding : {<<>>}, result : {<<>>}]

\* The arguments a function does not take are held at one value.
InitQuery ==
    /\ InitServer
    /\ ck = IdleCk
    /\ pg = IdlePg
    /\ cl = IdleCl
    /\ ix = IdleIx
    /\ qs \in {c \in QueryCalls :
                 /\ c.fn # "semantic_search" =>
                        c.top_k = 1 /\ c.shape = "flat" /\ c.docs = <<>>
                        /\ c.metas = <<>> /\ c.dists = <<>>
                 /\ c.fn # "generate_embeddings" => c.texts = <<>>
                 /\ c.fn = "generate_embeddings" => c.query = ""
                 /\ Len(c.metas) <= Len(c.docs)
                 /\ Len(c.dists) <= Len(c.docs)}

\* _parse_chroma_results
Unwrap_keeps_nesting(raw) == raw

Unwrap(raw) ==
    IF Len(raw.list) > 0 /\ isinstance_list(raw.list[1]) THEN raw.list[1] ELSE raw

parse_chroma_results(query_result, top_k) ==
    LET docs == Unwrap(query_result.documents).list
        metadatas == Unwrap(query_result.metadatas).list
        distances == Unwrap(query_result.distances).list
    IN [i \in 1..Min({Len(docs), top_k}) |->
           [document |-> IF i <= Len(docs) THEN docs[i] ELSE None,
            metadata |-> IF i <= Len(metadatas) THEN metadatas[i] ELSE None,
            distance |-> IF i <= Len(distances) THEN distances[i] ELSE None]]

\* semantic_search: the guard on the query, then the call of embed_query
semantic_search_enter ==
    /\ qs.pc = "call" /\ qs.fn = "semantic_search"
    /\ qs' = IF qs.query = "" \/ query_strip(qs.query) = ""
             THEN [qs EXCEPT !.pc = "done", !.result = <<>>]
             ELSE [qs EXCEPT !.pc = "embed_query",
                             !.calls = Append(qs.calls, "embed_query")]
    /\ UNCHANGED <<server, ck, pg, cl, ix>>

\* embed_query: the guard, then the call of generate_embeddings([query])
embed_query_enter ==
    /\ \/ qs.pc = "call" /\ qs.fn = "embed_query"
       \/ qs.pc = "embed_query"
    /\ qs' = IF qs.query = "" \/ query_strip(qs.query) = ""
             THEN [qs EXCEPT !.pc = "embedded", !.embedding = <<>>]
             ELSE [qs EXCEPT !.pc = "generate", !.texts = <<qs.query>>,
                             !.calls = Append(qs.calls, "generate_embeddings")]
    /\ UNCHANGED <<server, ck, pg, cl, ix>>

\* generate_embeddings: [] for an empty list; otherwise the libraries are
\* imported, the model is loaded and the texts encoded, or an error is raised.
generate_embeddings(ok) ==
    /\ \/ qs.pc = "call" /\ qs.fn = "generate_embeddings"
       \/ qs.pc = "generate"
    /\ IF qs.texts = <<>>
       THEN /\ ok
            /\ qs' = [qs EXCEPT !.pc = IF qs.fn = "generate_embeddings"
                                       THEN "done" ELSE "generated",
                                !.result = <<>>]
       ELSE IF ok
       THEN qs' = [qs EXCEPT !.pc = IF qs.fn = "generate_embeddings"
                                    THEN "done" ELSE "generated",
                             !.calls = Append(qs.calls, "SentenceTransformer"),
                             !.result = [k \in 1..Len(qs.texts) |-> <<"vector", qs.texts[k]>>]]
       ELSE qs' = [qs EXCEPT !.pc = "raised",
                             !.calls = Append(qs.calls, "SentenceTransformer")]
    /\ UNCHANGED <<server, ck, pg, cl, ix>>

\* embed_query returns embeddings[0] if embeddings else []
embed_query_return ==
    /\ qs.pc = "generated"
    /\ qs' = [qs EXCEPT !.pc = "embedded",
                        !.embedding = IF qs.result # <<>> THEN qs.result[1] ELSE <<>>,
                        !.result = <<>>]
    /\ UNCHANGED <<server, ck, pg, cl, ix>>

\* back in the caller: embed_query itself returns, or semantic_search goes on
\* with `if not query_embedding: return []`
embedded ==
    /\ qs.pc = "embedded"
    /\ qs' = IF qs.fn = "embed_query"
             THEN [qs EXCEPT !.pc = "done", !.result = qs.embedding]
             ELSE IF qs.embedding = <<>>
             THEN [qs EXCEPT !.pc = "done", !.result = <<>>]
             ELSE [qs EXCEPT !.pc = "query"]
    /\ UNCHANGED <<server, ck, pg, cl, ix>>

\* get_collection and collection.query, then _parse_chroma_results; an
\* exception of the store becomes RuntimeError.
semantic_search_query(ok) ==
    /\ qs.pc = "query"
    /\ qs' = IF ok
             THEN [qs EXCEPT !.pc = "done",
                             !.calls = qs.calls \o <<"get_collection", "collection.query">>,
                             !.result = parse_chroma_results(Reply(qs), qs.top_k)]
             ELSE [qs EXCEPT !.pc = "raised",
                             !.calls = qs.calls \o <<"get_collection", "collection.query">>]
    /\ UNCHANGED <<server, ck, pg, cl, ix>>

NextQuery ==
    \/ semantic_search_enter
    \/ embed_query_enter
    \/ \E ok \in BOOLEAN : generate_embeddings(ok)
    \/ embed_query_return
    \/ embedded
    \/ \E ok \in BOOLEAN : semantic_search_query(ok)

SpecQuery == InitQuery /\ [][NextQuery]_vars

\* ================================================================ claims
Statuses == {"uploaded", "indexing", "indexed", "retrying", "error"}
IngestPcs == {"ix_check", "ix_extract", "ix_store"}
TransientMsgs == {MsgEmbedding, MsgStorage}

\* ------------------------------------------------------------------- C1
\* C1: every change of the status field of a record follows one of the
\* edges uploaded->indexing, indexing->indexed, indexing->error,
\* error->retrying, retrying->indexed, retrying->error.
LegalEdges ==
    {<<"uploaded", "indexing">>, <<"indexing", "indexed">>, <<"indexing", "error">>,
     <<"error", "retrying">>, <<"retrying", "indexed">>, <<"retrying", "error">>}

StatusEdgeLegal(f) ==
    LET a == UPLOAD_STATUS[f].status
        b == UPLOAD_STATUS'[f].status
    IN (a \in Statuses /\ b \in Statuses /\ a # b) => <<a, b>> \in LegalEdges

C1_StatusEdges == [][\A f \in FileIds : StatusEdgeLegal(f)]_vars

\* ------------------------------------------------------------------- C2
\* C2: at any time at most one index_file invocation is in progress for a
\* given file_id, whoever started it.
InFlight(f) ==
    Cardinality({t \in Threads : thr[t].fid = f /\ thr[t].pc \in IngestPcs})
    + (IF w.fid = f /\ w.pc \in IngestPcs THEN 1 ELSE 0)

C2_OneIngestionPerFile == \A f \in FileIds : InFlight(f) <= 1

\* ------------------------------------------------------------------- C3
\* C3: a file whose ingestion outcome is a permanent error (0-byte file, no
\* extractable text) is never promoted to retrying, its attempts stay 0, and
\* once no thread works on it its record is error with a permanent message
\* (stated for an uploaded file that was neither deleted nor reindexed).
PermanentKinds == {"empty", "notext"}

Quiescent(f) ==
    /\ lock = "free"
    /\ \A t \in Threads : thr[t].fid # f
    /\ w.fid # f

C3_PermanentNeverRetried ==
    \A f \in FileIds :
        (nDeletes = 0 /\ nReindex = 0 /\ files[f] \in PermanentKinds /\ Present(f)) =>
            /\ UPLOAD_STATUS[f].status # "retrying"
            /\ UPLOAD_STATUS[f].attempts = 0
            /\ Quiescent(f) => /\ UPLOAD_STATUS[f].status = "error"
                               /\ is_permanent(UPLOAD_STATUS[f].message)

\* ------------------------------------------------------------------- C4
\* C4: after delete_file(X) has returned successfully, the collection holds
\* no index entry of X until X is uploaded again.
C4_DeletedHasNoEntries == \A f \in FileIds : gone[f] => f \notin chroma

\* ------------------------------------------------------------------- C5
\* C5: once delete_file(X) has removed the status record of X, X has no
\* status record (get_status is not_found) until X is uploaded again.
C5_DeletedHasNoRecord == \A f \in FileIds : gone[f] => ~Present(f)

\* ------------------------------------------------------------------- C6
\* C6: with no manual reindex involved, the attempts value of every status
\* record is at most INDEX_RETRY_MAX in every reachable state.
C6_AttemptsBounded ==
    nReindex = 0 => \A f \in FileIds : UPLOAD_STATUS[f].attempts <= INDEX_RETRY_MAX

\* ------------------------------------------------------------------- C7
\* C7: over the lifetime of a record, which starts when an upload creates
\* it, no step writes an attempts value smaller than the one it replaces.
\* The reset to 0 at the start of a manual reindex is left out of the
\* statement: every other write is claimed never to lower the value.
Decreases(f) ==
    /\ Present(f) /\ Present(f)'
    /\ UPLOAD_STATUS'[f].attempts < UPLOAD_STATUS[f].attempts

IsUploadInit(f) == req.op = "upload" /\ req.fid = f /\ req'.op = "idle"

IsReindexReset(f) ==
    \E t \in Threads :
        /\ thr[t].kind = "reindex" /\ thr[t].fid = f
        /\ thr[t].pc = "start2" /\ thr'[t].pc = "ix_check"
        /\ UPLOAD_STATUS'[f].attempts = 0

C7_AttemptsMonotone ==
    [][\A f \in FileIds : Decreases(f) => IsUploadInit(f) \/ IsReindexReset(f)]_vars

\* ------------------------------------------------------------------- C8
\* C8: once a record is error with attempts = INDEX_RETRY_MAX, and as long
\* as no manual reindex is requested, the retry worker does not promote it:
\* no step of the worker that is not the end of an invocation begun earlier
\* changes the record.
Exhausted(f) ==
    /\ lock = "free"
    /\ UPLOAD_STATUS[f].status = "error"
    /\ UPLOAD_STATUS[f].attempts = INDEX_RETRY_MAX

WorkerBetweenRetries == w.pc \in {"sleep", "next", "read_msg", "promote"} /\ w'.pc # w.pc

C8_ExhaustedLeftAlone ==
    [][\A f \in FileIds :
          (nReindex = 0 /\ Exhausted(f) /\ WorkerBetweenRetries) =>
              UPLOAD_STATUS'[f] = UPLOAD_STATUS[f]]_vars

\* ------------------------------------------------------------------- C9
\* C9: on the automatic path, with fair scheduling and returning index_file
\* calls, a record that is error with a transient failure message and
\* attempts = a < INDEX_RETRY_MAX is eventually retrying with attempts a + 1,
\* a retrying record leads to index_file returning to the worker for it, and
\* the returned result leads to the record being indexed or error with that
\* result's message.
Retryable(f, a) ==
    /\ UPLOAD_STATUS[f].status = "error"
    /\ UPLOAD_STATUS[f].message \in TransientMsgs
    /\ UPLOAD_STATUS[f].attempts = a

Promoted(f, a) ==
    /\ UPLOAD_STATUS[f].status = "retrying"
    /\ UPLOAD_STATUS[f].attempts = a + 1

Returned(f, r) == w.pc = "wb" /\ w.fid = f /\ w.res = r

Recorded(f, r) ==
    /\ UPLOAD_STATUS[f].status = StatusOf(r)
    /\ UPLOAD_STATUS[f].message = MessageOf(r)

Results == StoreOutcomes \cup {MsgNotFound, MsgEmpty, MsgNoText}

Raised == w.pc \in {"wb", "exc"} /\ ~Present(w.fid) /\ lock = "free" /\ w'.pc # w.pc

C10_WorkerSurvives ==
    /\ [](w.pc # "dead")
    /\ [][Raised => (w'.items = w.items /\ w'.pc \in {"exc", "next", "sleep"})]_vars
    /\ []<>(w.pc = "sleep")

\* The record of the file being retried was deleted between promotion and
\* write-back: the write-back has raised and records remain in the pass.
C10_Witness == w.pc = "exc" /\ ~Present(w.fid) /\ gone[w.fid] /\ w.items # <<>>

\* ------------------------------------------------------------------ C11
\* C11: once two manual reindex requests for a file have both run to their
\* end (no thread is left), the record is indexed or error and the
\* collection holds exactly one entry per entry id of the file.
C11_ConcurrentReindexNoDuplicates ==
    \A f \in FileIds :
        (nReindex = MaxConcurrentReindex /\ FreeSlots = Threads /\ Present(f)) =>
            /\ UPLOAD_STATUS[f].status \in {"indexed", "error"}
            /\ f \notin dups

\* ------------------------------------------------------------------ C12
\* C12: a record that the restarted process finds persisted as uploaded,
\* indexing or retrying eventually becomes indexed or error.
NonTerminal == {"uploaded", "indexing", "retrying"}

C12_InFlightResumedAfterRestart ==
    \A f \in FileIds :
        (auto.restarts > 0 /\ UPLOAD_STATUS[f].status \in NonTerminal)
            ~> (UPLOAD_STATUS[f].status \in {"indexed", "error"})

\* ------------------------------------------------------------------ C13
\* C13: index_file hands every caller a result, success or error with a
\* message, for every combination of stage outcomes, and a caller that
\* writes the result into the record of the file writes indexed with the
\* success message for success and error with the result's message for
\* every failure (callers: upload thread, manual reindex thread, retry
\* worker; the record is the one stored under the file id at that moment).
Outcome(res) == IF res = "success" THEN <<"indexed", MsgIndexed>> ELSE <<"error", res>>

ThreadWritesResult(t) ==
    LET f == thr[t].fid IN
    /\ (thr[t].pc = "wb" /\ thr'[t].pc = "wb2") =>
           UPLOAD_STATUS'[f].status = Outcome(thr[t].res)[1]
    /\ (thr[t].pc = "wb2" /\ thr'[t].pc # "wb2") =>
           /\ UPLOAD_STATUS'[f].status = Outcome(thr[t].res)[1]
           /\ UPLOAD_STATUS'[f].message = Outcome(thr[t].res)[2]

WorkerWritesResult ==
    /\ (w.pc = "wb" /\ w'.pc = "wb2") =>
           UPLOAD_STATUS'[w.fid].status = Outcome(w.res)[1]
    /\ (w.pc = "wb2" /\ w'.pc # "wb2") =>
           /\ UPLOAD_STATUS'[w.fid].status = Outcome(w.res)[1]
           /\ UPLOAD_STATUS'[w.fid].message = Outcome(w.res)[2]

HasResult ==
    /\ \A t \in Threads : thr[t].pc \in {"wb", "wb2"} => thr[t].res \in Results
    /\ w.pc \in {"wb", "wb2"} => w.res \in Results

ReindexInBlock(t) == thr[t].kind = "reindex" /\ thr[t].pc = "start2"

ReindexLeavesBlock(t) ==
    (ReindexInBlock(t) /\ thr'[t].pc # "start2") =>
        /\ UPLOAD_STATUS'[thr[t].fid] =
               [status |-> "indexing", message |-> MsgManual, attempts |-> 0]
        /\ lock' = "free"
        /\ thr'[t].pc = "ix_check"

C14_ReindexResets ==
    /\ [](\A t \in Threads :
            ReindexInBlock(t) =>
                lock = Holder(t) /\ UPLOAD_STATUS[thr[t].fid].status = "indexing")
    /\ [][\A t \in Threads : ReindexLeavesBlock(t)]_vars

\* A manual reindex is resetting a record whose automatic retries were
\* used up.
C14_Witness ==
    \E t \in Threads :
        /\ ReindexInBlock(t)
        /\ UPLOAD_STATUS[thr[t].fid].attempts = INDEX_RETRY_MAX

\* ------------------------------------------------------------------ C15
\* C15: when _background_index of an upload begins, the record of the file
\* is stored and persisted as uploaded with attempts 0, and no step of it
\* runs while the upload request is still being handled: the request
\* returns without waiting for index_file.
UploadRuns == {t \in Threads : thr[t].kind \in {"upload", "sync"}}

C15_UploadDoesNotWait ==
    \A t \in UploadRuns :
        /\ thr[t].pc = "start" =>
               disk.map[thr[t].fid] =
                   [status |-> "uploaded", message |-> MsgUploaded, attempts |-> 0]
        /\ thr[t].pc # "start" => ~(req.op = "upload" /\ req.fid = thr[t].fid)

\* ------------------------------------------------------------------ C16
\* C16: when the extraction or embedding call of an ingestion never returns,
\* the record of the file eventually becomes error, whether the ingestion
\* was started by an upload, by a manual reindex or by the retry worker.
Stuck(f) ==
    \/ \E t \in Threads : thr[t].pc = "hung" /\ thr[t].fid = f
    \/ w.pc = "hung" /\ w.fid = f

C16_StuckStageTimesOut ==
    \A f \in FileIds : Stuck(f) ~> (UPLOAD_STATUS[f].status = "error")

\* ------------------------------------------------------------------ C17
\* C17: in every reachable state every index entry of the collection carries
\* the file_id of a document that currently exists in the upload directory.
C17_EntriesBelongToDocuments == \A f \in chroma : files[f] # "absent"

\* ------------------------------------------------------------------ C18
\* C18: for a non-empty text and 0 <= overlap < chunk_size, every iteration
\* of the character chunking loop ends with a start offset strictly greater
\* than the one it began with, also when the right boundary was moved back
\* to an earlier space.
IsIteration == ck.pc = "loop" /\ ck'.pc = "loop" /\ ck'.iter = ck.iter + 1

C18_StartStrictlyIncreases == [][IsIteration => ck'.start > ck.start]_vars

\* ------------------------------------------------------------------ C19
\* C19: for a text with at least one non-whitespace character, the finished
\* chunking returns a non-empty sequence and every non-whitespace character
\* of the text lies inside at least one returned chunk.
NonSpace(c) == {i \in 0..(Len(c.text) - 1) : c.text[i + 1] # " "}

Covered(c, i) ==
    \E k \in 1..Len(c.chunks) : c.chunks[k][1] <= i /\ i < c.chunks[k][2]

C19_ChunksCoverText ==
    (ck.pc = "done" /\ NonSpace(ck) # {}) =>
        /\ ck.chunks # <<>>
        /\ \A i \in NonSpace(ck) : Covered(ck, i)

\* ------------------------------------------------------------------ C20
\* C20: a document of 3 paragraphs totalling 2,500 characters, chunked with
\* chunk_size 1000 and overlap 200, gives N chunks with N = 3 or N = 4, no
\* chunk longer than chunk_size plus a tenth of it, and index values
\* 0..N-1 in output order.
C20_ThreeOrFourChunks ==
    (pg.pc = "done" /\ DocLen(pg.doc) = DocTotal) =>
        LET N == Len(pg.result) IN
        /\ N \in {3, 4}
        /\ \A k \in 1..N :
              /\ pg.result[k].length <= pg.chunk_size + pg.chunk_size \div 10
              /\ pg.result[k].index = k - 1

\* ------------------------------------------------------------------ C21
\* C21: semantic_search with an empty or whitespace-only query returns an
\* empty sequence and invokes neither the embedding functions nor the
\* vector store; embed_query of an empty string and generate_embeddings of
\* an empty list return an empty list without loading the model.
BlankQueries == {"", " ", "  "}

EmptyInput ==
    \/ qs.fn = "semantic_search" /\ qs.query \in BlankQueries
    \/ qs.fn = "embed_query" /\ qs.query = ""
    \/ qs.fn = "generate_embeddings" /\ qs.texts = <<>>

C21_EmptyQueryShortCircuits ==
    (qs.pc # "idle" /\ EmptyInput) =>
        /\ qs.pc # "raised"
        /\ qs.calls = <<>>
        /\ qs.pc = "done" => qs.result = <<>>

C21_Witness ==
    /\ qs.pc = "done" /\ qs.fn = "semantic_search" /\ qs.query = "  "
    /\ qs.docs # <<>>

\* ------------------------------------------------------------------ C22
\* C22: the retry worker's promotion writes retrying only to a record whose
\* status is error at the instant of the write, and the attempts value it
\* writes is the record's attempts at that instant plus one.
IsPromotion == w.pc = "promote" /\ w'.pc = "promote2"

C22_PromotionAtomic ==
    [][IsPromotion =>
          /\ UPLOAD_STATUS[w.fid].status = "error"
          /\ UPLOAD_STATUS'[w.fid].attempts = UPLOAD_STATUS[w.fid].attempts + 1]_vars

\* ------------------------------------------------------------------ C23
\* C23: when the process crashes during a save that writes a record, the
\* map loaded at the next start is the complete map persisted before that
\* save or the complete map being saved, which holds at least that record:
\* it is never the empty map unless nothing was persisted before.
IsCrashInSave == auto'.restarts = auto.restarts + 1 /\ disk'.torn /\ ~disk.torn

C23_CrashLeavesOldOrNewMap ==
    [][IsCrashInSave =>
          \/ UPLOAD_STATUS' = disk.map
          \/ \E f \in FileIds : UPLOAD_STATUS'[f].status # "absent"]_vars

\* ------------------------------------------------------------------ C24
\* C24: whenever UPLOAD_STATUS_LOCK is not held, the status file holds the
\* in-memory status map (every write of the file succeeding).
C24_FileEqualsMapWhenUnlocked ==
    lock = "free" => /\ disk.map = UPLOAD_STATUS
                     /\ disk.order = order
                     /\ ~disk.torn

C24_Witness ==
    /\ lock = "free"
    /\ nDeletes > 0
    /\ \E f \in FileIds : disk.map[f].status = "retrying" /\ disk.map[f].attempts = 2

\* ------------------------------------------------------------------ C25
\* C25: the status, message and attempts that get_upload_status returns
\* were together the values of the record at one instant between the lookup
\* and the return.
C25_StatusReadIsSnapshot ==
    (req.op = "status" /\ req.pc = "return") => req.out \in req.held

\* ------------------------------------------------------------------ C26
\* C26: in a call of index_file the stages invoked are an initial part of
\* check, extract, chunk, embed, store, each invoked only after all earlier
\* ones succeeded; collection.add is invoked at most once, by the last stage;
\* and a call ended by a failure before the store stage has left the
\* collection as it found it.
C26_StagesInOrder ==
    ix.pc # "idle" =>
        /\ Len(ix.calls) <= Len(Stages)
        /\ \A i \in DOMAIN ix.calls : ix.calls[i] = Stages[i]
        /\ \A i \in DOMAIN ix.calls : i < Len(ix.calls) => ix.ok[i]
        /\ ix.adds <= 1
        /\ ix.adds = 1 => ix.calls = Stages
        /\ (ix.pc = "return" /\ ix.calls # Stages) =>
               /\ ix.res # "success"
               /\ ix.adds = 0
               /\ chroma = ix.before

C26_Witness ==
    /\ ix.pc = "return"
    /\ ix.calls = <<"check", "extract", "chunk", "embed">>
    /\ ix.res = MsgEmbedding
    /\ ix.before # {}

\* ------------------------------------------------------------------ C27
\* C27: between two calls of reset_client at most one vector-store client
\* instance is created, and callers that hold a client at the same time hold
\* the same instance.
C27_OneClientBetweenResets ==
    /\ cl.made <= 1
    /\ \A c, d \in Callers :
           (cl.caller[c].pc = "done" /\ cl.caller[d].pc = "done") =>
               cl.caller[c].got = cl.caller[d].got

\* ------------------------------------------------------------------ C28
\* C28: a search that reaches the store returns the same sequence for a flat
\* and for a nested reply of the same contents: min(number of documents,
\* top_k) records, the i-th holding the i-th document, metadata and distance
\* of the reply, None where the reply has fewer metadatas or distances.
Normalized(c) ==
    [i \in 1..Min({Len(c.docs), c.top_k}) |->
        [document |-> Atom(c.docs[i]),
         metadata |-> IF i <= Len(c.metas) THEN Atom(c.metas[i]) ELSE None,
         distance |-> IF i <= Len(c.dists) THEN Atom(c.dists[i]) ELSE None]]

C28_NormalizationIgnoresShape ==
    (qs.pc = "done" /\ qs.fn = "semantic_search" /\ qs.query \notin BlankQueries) =>
        /\ qs.result = Normalized(qs)
        /\ Len(qs.result) = Min({Len(qs.docs), qs.top_k})
        /\ parse_chroma_results(Reply([qs EXCEPT !.shape = "flat"]), qs.top_k)
             = parse_chroma_results(Reply([qs EXCEPT !.shape = "nested"]), qs.top_k)

C28_Witness ==
    /\ qs.pc = "done" /\ qs.fn = "semantic_search" /\ qs.query = "q"
    /\ qs.shape = "nested"
    /\ Len(qs.docs) = 2 /\ qs.top_k = 2
    /\ Len(qs.metas) = 1 /\ qs.dists = <<>>
    /\ Len(qs.result) = 2

\* ------------------------------------------------------------------ C29
\* C29: whoever holds the status lock is inside one of its `with` blocks,
\* never in index_file and never about to take the lock again; hence a held
\* lock is always released, also when an ingestion never returns.
HolderInsideWith ==
    /\ \A t \in Threads : lock = Holder(t) => thr[t].pc \in {"start2", "wb2"}
    /\ lock = "worker" => w.pc \in {"promote2", "wb2"}

C29_LockFreeOfIndexing ==
    /\ []HolderInsideWith
    /\ (lock # "free") ~> (lock = "free")

C29_Witness ==
    /\ lock = "worker"
    /\ \E t \in Threads : thr[t].pc = "hung"

\* ------------------------------------------------------------------ C30
\* C30: while no delete and no clear_all request is in progress, every record
\* with status indexed has at least one index entry of its file in the
\* collection.
C30_IndexedHasEntries ==
    req.op \notin {"delete", "clear"} =>
        \A f \in FileIds : UPLOAD_STATUS[f].status = "indexed" => f \in chroma
====
